---- MODULE Spec2Model ----
(***************************************************************************)
(* Term progression of one learner of darololomMIS (core/views.py):        *)
(* grade_entry stores the submitted scores and runs _auto_promote_student, *)
(* student_promote_to_moteseta is the lower-to-middle crossover gated by   *)
(* _can_graduate_ebtedai, student_exam_results is the exam report.         *)
(* Further specifications cover the score ledger (SpecLedger), the exam    *)
(* report over two catalogs (SpecReport), evaluations running as           *)
(* concurrent requests (SpecRequests) and the birth-date conversions of    *)
(* core/forms.py (SpecDates).                                              *)
(*                                                                         *)
(* None is written "" for a level code, 0 for a Semester / CoursePeriod    *)
(* reference and Null for a score; a missing school_class has present =    *)
(* FALSE.  Strings of a POST are sequences of one-character strings.       *)
(***************************************************************************)
EXTENDS Integers, Sequences, FiniteSets, TLC

VARIABLES
    \* the learner: its Student row, its term markers and its StudentScore rows
    level, school_class, semesters, periods, is_graduated, scores,
    \* the last operation on the learner: name, outcome, the learner before
    last,
    \* the Subject table
    Subject,
    \* the last POST of grade_entry and the ledger it found (SpecLedger)
    post,
    \* the Student rows by pk, with their markers and scores, the rows the
    \* requests started from, and the requests in flight (SpecRequests)
    Student, enrolled, requests,
    \* the submitted birth_date string and the last conversion (SpecDates)
    value, birth_date

learner_vars == <<level, school_class, semesters, periods, is_graduated, scores, last>>

request_vars == <<Student, enrolled, requests>>

form_vars == <<value, birth_date>>

vars == <<learner_vars, Subject, post, request_vars, form_vars>>

----------------------------------------------------------------------------
(* Bounds of the model *)

\* most term markers (semesters and periods together) a learner starts with
MaxMarkers == 2

(* Program constants *)

\* score__lt=50: the pass mark
PassMark == 50
\* if current >= 4: the last semester of the upper level
SemesterCeiling == 4
\* if current >= 6: the last period of the middle and lower level
PeriodCeiling == 6
\* if score_val < 0 or score_val > 100
MaxScore == 100

Null == 0 - 1

Max(S) == CHOOSE x \in S : \A y \in S : y <= x

----------------------------------------------------------------------------
(* Reference data and the subject catalog *)

\* StudyLevel codes created by _ensure_reference_data
LevelCodes == {"aali", "moteseta", "ebtedai"}

\* The rows of the Subject table: id, level code ("" = no level), semester
\* number and period number (0 = no period).
Catalog == {
    [id |-> 1, level |-> "",        semester |-> 3, period |-> 5],
    [id |-> 2, level |-> "",        semester |-> 4, period |-> 6],
    [id |-> 3, level |-> "ebtedai", semester |-> 4, period |-> 6] }

SubjectIds == {s.id : s \in Subject}

NoClass == [present |-> FALSE, level |-> "", semester |-> 0, period |-> 0]

\* The SchoolClass rows a learner may belong to.
SchoolClass == {
    [present |-> TRUE, level |-> "aali",    semester |-> 3, period |-> 0],
    [present |-> TRUE, level |-> "",        semester |-> 0, period |-> 6] }

----------------------------------------------------------------------------
(* The learner as _auto_promote_student and _can_graduate_ebtedai read it *)

student == [level |-> level, school_class |-> school_class,
            semesters |-> semesters, periods |-> periods,
            is_graduated |-> is_graduated]

\* student.level or (student.school_class.level if student.school_class
\* else None), as the level's code
level_obj(st) ==
    IF st.level # "" THEN st.level
    ELSE IF st.school_class.present THEN st.school_class.level
    ELSE ""

MutLatestLowest(S) == CHOOSE x \in S : \A y \in S : x <= y

\* order_by('-number').first()
Latest(S) == Max(S)

\* student.semesters.order_by('-number').first(), else the class's semester
latest_semester(st) ==
    IF st.semesters # {} THEN Latest(st.semesters)
    ELSE IF st.school_class.present /\ st.school_class.semester # 0
         THEN st.school_class.semester
    ELSE 0

\* student.periods.order_by('-number').first(), else the class's period
latest_period(st) ==
    IF st.periods # {} THEN Latest(st.periods)
    ELSE IF st.school_class.present /\ st.school_class.period # 0
         THEN st.school_class.period
    ELSE 0

MutLevelCodeNoInference(st) == level_obj(st)

\* level_code of _auto_promote_student: the explicit level, the class's
\* level, else the level inferred from the markers
level_code(st) ==
    IF level_obj(st) # "" THEN level_obj(st)
    ELSE IF latest_semester(st) # 0 /\ latest_period(st) = 0 THEN "aali"
    ELSE IF latest_period(st) # 0 THEN "moteseta"
    ELSE ""

MutLevelMatchesAny(s, code) == TRUE

\* Q(level=level_obj) | Q(level__isnull=True)
LevelMatches(s, code) == s.level = code \/ s.level = ""

\* Subject.objects.filter(semester=latest_semester.number), level-filtered
SemesterSubjects(code, n) ==
    {s \in Subject : s.semester = n /\ LevelMatches(s, code)}

\* Subject.objects.filter(period=latest_period), level-filtered
PeriodSubjects(code, n) ==
    {s \in Subject : s.period = n /\ LevelMatches(s, code)}

MutSubjectsOtherUnit(st) ==
    LET code == level_code(st) IN
    IF code = "aali" THEN
        IF latest_semester(st) = 0
        THEN PeriodSubjects(code, latest_period(st))
        ELSE SemesterSubjects(code, latest_semester(st))
    ELSE IF code \in {"moteseta", "ebtedai"} THEN
        IF latest_period(st) = 0 THEN {}
        ELSE PeriodSubjects(code, latest_period(st))
    ELSE {}

\* the queryset `subjects` of _auto_promote_student; empty where the code
\* returns None before it filters
subjects(st) ==
    LET code == level_code(st) IN
    IF code = "aali" THEN
        IF latest_semester(st) = 0 THEN {}
        ELSE SemesterSubjects(code, latest_semester(st))
    ELSE IF code \in {"moteseta", "ebtedai"} THEN
        IF latest_period(st) = 0 THEN {}
        ELSE PeriodSubjects(code, latest_period(st))
    ELSE {}

\* StudentScore.objects.filter(student=student, subject__in=subjects)
scores_qs(sc, subs) == {r \in sc : r.subject \in {s.id : s \in subs}}

MutHasFailingBelow49(qs) == \E r \in qs : r.score # Null /\ r.score < PassMark - 1

\* scores_qs.filter(score__lt=50).exists(): NULL is not less than 50
HasFailing(qs) == \E r \in qs : r.score # Null /\ r.score < PassMark

MutNotAllPassedNoCount(sc, subs) ==
    LET qs == scores_qs(sc, subs) IN
    \/ \E r \in qs : r.score = Null
    \/ HasFailing(qs)

\* the three checks on scores_qs that return None
NotAllPassed(sc, subs) ==
    LET qs == scores_qs(sc, subs) IN
    \/ Cardinality(qs) < Cardinality(subs)
    \/ \E r \in qs : r.score = Null
    \/ HasFailing(qs)

MutAtCeilingOneEarly(code, current) ==
    IF code = "aali" THEN current >= SemesterCeiling - 1
    ELSE current >= PeriodCeiling - 1

MutAtCeilingNever(code, current) == FALSE

MutAtCeilingAbove(code, current) ==
    IF code = "aali" THEN current > SemesterCeiling
    ELSE current > PeriodCeiling

\* current >= 4 / current >= 6
AtCeiling(code, current) ==
    IF code = "aali" THEN current >= SemesterCeiling
    ELSE current >= PeriodCeiling

MutSetMarkersSkipsOne(old, next) == {next + 1}

MutSetMarkersAdd(old, next) == old \cup {next}

\* student.semesters.set([next_sem]) / student.periods.set([next_period])
SetMarkers(old, next) == {next}

MutAlreadyGraduatedIgnored(st) == FALSE

\* if getattr(student, 'is_graduated', False): return None
AlreadyGraduated(st) == st.is_graduated

Result(ret, st) ==
    [ret |-> ret, semesters |-> st.semesters, periods |-> st.periods,
     is_graduated |-> st.is_graduated]

MutAutoPromoteNoEmptyCheck(st, sc) ==
    LET code    == level_code(st)
        subs    == subjects(st)
        current == IF code = "aali" THEN latest_semester(st)
                   ELSE latest_period(st)
    IN
    IF AlreadyGraduated(st) THEN Result("None", st)
    ELSE IF code = "" THEN Result("None", st)
    ELSE IF NotAllPassed(sc, subs) THEN Result("None", st)
    ELSE IF AtCeiling(code, current) THEN
        [Result("graduated", st) EXCEPT !.is_graduated = TRUE]
    ELSE IF code = "aali" THEN
        [Result("promoted", st) EXCEPT
            !.semesters = SetMarkers(st.semesters, current + 1),
            !.is_graduated = FALSE]
    ELSE
        [Result("promoted", st) EXCEPT
            !.periods = SetMarkers(st.periods, current + 1),
            !.is_graduated = FALSE]

\* _auto_promote_student(student) on the ledger sc: the returned message
\* ("None", "graduated", "promoted") and the learner's fields afterwards
_auto_promote_student(st, sc) ==
    LET code    == level_code(st)
        subs    == subjects(st)
        current == IF code = "aali" THEN latest_semester(st)
                   ELSE latest_period(st)
    IN
    IF AlreadyGraduated(st) THEN Result("None", st)
    ELSE IF code = "" THEN Result("None", st)
    ELSE IF subs = {} THEN Result("None", st)
    ELSE IF NotAllPassed(sc, subs) THEN Result("None", st)
    ELSE IF AtCeiling(code, current) THEN
        [Result("graduated", st) EXCEPT !.is_graduated = TRUE]
    ELSE IF code = "aali" THEN
        [Result("promoted", st) EXCEPT
            !.semesters = SetMarkers(st.semesters, current + 1),
            !.is_graduated = FALSE]
    ELSE
        [Result("promoted", st) EXCEPT
            !.periods = SetMarkers(st.periods, current + 1),
            !.is_graduated = FALSE]

MutCanGraduateAnyLevel(st, sc) ==
    LET code == IF level_obj(st) # "" THEN level_obj(st) ELSE "ebtedai"
        subs == PeriodSubjects(code, latest_period(st))
    IN
    /\ latest_period(st) = PeriodCeiling
    /\ subs # {}
    /\ ~NotAllPassed(sc, subs)

\* _can_graduate_ebtedai(student)[0]
_can_graduate_ebtedai(st, sc) ==
    LET code == IF level_obj(st) # "" THEN level_obj(st) ELSE "ebtedai"
        subs == PeriodSubjects(code, latest_period(st))
    IN
    /\ code = "ebtedai"
    /\ latest_period(st) = PeriodCeiling
    /\ subs # {}
    /\ ~NotAllPassed(sc, subs)

----------------------------------------------------------------------------
(* student_exam_results: the exam report's own reading of the learner *)

\* level_code of student_exam_results: the explicit level, the class's
\* level, else moteseta or ebtedai by the subjects of the period, else aali
exam_level_code(st) ==
    IF level_obj(st) # "" THEN level_obj(st)
    ELSE IF latest_period(st) # 0 THEN
        IF \E s \in Subject : s.period = latest_period(st) /\ s.level = "moteseta"
        THEN "moteseta"
        ELSE IF \E s \in Subject : s.period = latest_period(st) /\ s.level = "ebtedai"
        THEN "ebtedai"
        ELSE "moteseta"
    ELSE IF latest_semester(st) # 0 THEN "aali"
    ELSE "unknown"

\* the queryset `subjects` of student_exam_results
exam_subjects(st) ==
    LET code == exam_level_code(st) IN
    IF code = "aali" THEN
        IF latest_semester(st) # 0
        THEN SemesterSubjects(code, latest_semester(st))
        ELSE {s \in Subject : LevelMatches(s, code)}
    ELSE IF code \in {"moteseta", "ebtedai"} THEN
        IF latest_period(st) # 0
        THEN PeriodSubjects(code, latest_period(st))
        ELSE {s \in Subject : s.level = code}
    ELSE Subject

\* score_value of one subject: 0 without a record or a score, else the
\* score clamped to 0..100
score_value(sc, s) ==
    IF \E r \in sc : r.subject = s.id /\ r.score # Null
    THEN LET v == (CHOOSE r \in sc : r.subject = s.id /\ r.score # Null).score
         IN IF v < 0 THEN 0 ELSE IF v > MaxScore THEN MaxScore ELSE v
    ELSE 0

\* all_passed of student_exam_results
exam_all_passed(st, sc) ==
    /\ exam_subjects(st) # {}
    /\ \A s \in exam_subjects(st) : score_value(sc, s) >= PassMark

\* can_graduate_ebtedai of student_exam_results
exam_can_graduate_ebtedai(st, sc) ==
    /\ exam_all_passed(st, sc)
    /\ exam_level_code(st) = "ebtedai"
    /\ latest_period(st) # 0
    /\ latest_period(st) = PeriodCeiling

----------------------------------------------------------------------------
(* grade_entry: the POST's strings *)

Digits == <<"0", "1", "2", "3", "4", "5", "6", "7", "8", "9">>

IsDigit(ch) == \E i \in 1..10 : Digits[i] = ch

DigitVal(ch) == (CHOOSE i \in 1..10 : Digits[i] = ch) - 1

RECURSIVE DigitsVal(_)
DigitsVal(str) ==
    IF str = <<>> THEN 0
    ELSE 10 * DigitsVal(SubSeq(str, 1, Len(str) - 1)) + DigitVal(str[Len(str)])

AllDigits(str) == str # <<>> /\ \A i \in 1..Len(str) : IsDigit(str[i])

\* int(str): [ok |-> FALSE] stands for ValueError
ParseInt(str) ==
    IF AllDigits(str) THEN [ok |-> TRUE, val |-> DigitsVal(str)]
    ELSE IF str # <<>> /\ str[1] = "-" /\ AllDigits(Tail(str))
         THEN [ok |-> TRUE, val |-> 0 - DigitsVal(Tail(str))]
    ELSE [ok |-> FALSE, val |-> 0]

\* the values of subject_ids[] the model submits: the three subjects, an
\* unknown id and a non-integer
SubjectIdInputs == {<<"1">>, <<"2">>, <<"3">>, <<"9">>, <<"x">>}

\* the values of scores[] the model submits (already stripped)
ScoreInputs == {<<>>, <<"4", "9">>, <<"5", "0">>, <<"1", "0", "1">>,
                <<"-", "1">>, <<"x">>}

\* one subject_ids[] / scores[] pair of the POST
Entries == [sid : SubjectIdInputs, score : ScoreInputs]

\* the entries of the two-entry POSTs: subject 2 with a passing and with an
\* out-of-range score
PairEntries == [sid : {<<"2">>}, score : {<<"5", "0">>, <<"1", "0", "1">>}]

\* the POSTs the model submits: no entry, one entry, two entries
Submissions ==
    {<<>>} \cup {<<e>> : e \in Entries}
           \cup {<<e, f>> : e \in PairEntries, f \in PairEntries}

\* the POSTs of the ledger specification: scores at and beyond both ends
\* of the range, for two subjects, an unknown id and a non-integer
LedgerIdInputs == {<<"1">>, <<"2">>, <<"9">>, <<"x">>}

LedgerScoreInputs == {<<>>, <<"0">>, <<"5", "0">>, <<"1", "0", "0">>,
                      <<"1", "0", "1">>, <<"-", "1">>, <<"x">>}

LedgerEntries == [sid : LedgerIdInputs, score : LedgerScoreInputs]

LedgerPairEntries ==
    [sid : {<<"1">>, <<"2">>}, score : {<<"0">>, <<"1", "0", "0">>, <<"1", "0", "1">>}]
        \cup {[sid |-> <<"x">>, score |-> <<"1", "0", "0">>],
              [sid |-> <<"9">>, score |-> <<"1", "0", "0">>],
              [sid |-> <<"1">>, score |-> <<"x">>]}

LedgerSubmissions ==
    {<<>>} \cup {<<e>> : e \in LedgerEntries}
           \cup {<<e, f>> : e \in LedgerPairEntries, f \in LedgerPairEntries}

MutUpdateOrCreateAlwaysCreates(sc, sub_id, score_val) ==
    sc \cup {[subject |-> sub_id, score |-> score_val]}

\* StudentScore.objects.update_or_create(student, subject_id, defaults)
update_or_create(sc, sub_id, score_val) ==
    IF \E r \in sc : r.subject = sub_id
    THEN {IF r.subject = sub_id THEN [r EXCEPT !.score = score_val] ELSE r
          : r \in sc}
    ELSE sc \cup {[subject |-> sub_id, score |-> score_val]}

\* int() of every string the model submits
IntOf ==
    [str \in SubjectIdInputs \cup ScoreInputs \cup LedgerIdInputs
                \cup LedgerScoreInputs |-> ParseInt(str)]

MutSaveEntryNoUpperBound(sc, e) ==
    LET sid == IntOf[e.sid]
        val == IntOf[e.score]
    IN
    IF ~sid.ok THEN sc
    ELSE IF e.score # <<>> /\ (~val.ok \/ val.val < 0)
         THEN sc
    ELSE IF sid.val \notin SubjectIds THEN sc
    ELSE update_or_create(sc, sid.val, IF e.score = <<>> THEN Null ELSE val.val)

\* one iteration of the loop over subject_ids
SaveEntry(sc, e) ==
    LET sid == IntOf[e.sid]
        val == IntOf[e.score]
    IN
    IF ~sid.ok THEN sc
    ELSE IF e.score # <<>> /\ (~val.ok \/ val.val < 0 \/ val.val > MaxScore)
         THEN sc
    ELSE IF sid.val \notin SubjectIds THEN sc
    ELSE update_or_create(sc, sid.val, IF e.score = <<>> THEN Null ELSE val.val)

RECURSIVE MutSaveEntriesStopAtError(_, _)
MutSaveEntriesStopAtError(sc, es) ==
    IF es = <<>> THEN sc
    ELSE IF SaveEntry(sc, Head(es)) = sc /\ ~IntOf[Head(es).sid].ok THEN sc
    ELSE MutSaveEntriesStopAtError(SaveEntry(sc, Head(es)), Tail(es))

\* the loop over subject_ids
RECURSIVE SaveEntries(_, _)
SaveEntries(sc, es) ==
    IF es = <<>> THEN sc
    ELSE SaveEntries(SaveEntry(sc, Head(es)), Tail(es))

----------------------------------------------------------------------------
(* Birth dates (core/forms.py).  A date is a triple <<year, month, day>>.   *)

PersianDigits == <<"۰", "۱", "۲", "۳", "۴", "۵", "۶", "۷", "۸", "۹">>

MutPersianToAsciiIdentity(str) == str

\* _persian_to_ascii(value)
_persian_to_ascii(str) ==
    [i \in 1..Len(str) |->
        IF \E k \in 1..10 : PersianDigits[k] = str[i]
        THEN Digits[CHOOSE k \in 1..10 : PersianDigits[k] = str[i]]
        ELSE str[i]]

\* str.strip()
RECURSIVE Strip(_)
Strip(str) ==
    IF str = <<>> THEN str
    ELSE IF Head(str) = " " THEN Strip(Tail(str))
    ELSE IF str[Len(str)] = " " THEN Strip(SubSeq(str, 1, Len(str) - 1))
    ELSE str

\* raw.replace('-', '/').replace('.', '/')
ReplaceSeparators(str) ==
    [i \in 1..Len(str) |-> IF str[i] \in {"-", "."} THEN "/" ELSE str[i]]

\* raw.split('/')
RECURSIVE Split(_)
Split(str) ==
    IF str = <<>> THEN << <<>> >>
    ELSE LET rest == Split(Tail(str)) IN
         IF Head(str) = "/" THEN << <<>> >> \o rest
         ELSE << <<Head(str)>> \o Head(rest) >> \o Tail(rest)

NonEmpty(part) == part # <<>>

\* (gy % 4 == 0 and gy % 100 != 0) or (gy % 400 == 0)
IsLeap(gy) == (gy % 4 = 0 /\ gy % 100 # 0) \/ gy % 400 = 0

\* sal_a[1..12]
sal_a(gy) ==
    <<31, IF IsLeap(gy) THEN 29 ELSE 28, 31, 30, 31, 30, 31, 31, 30, 31, 30, 31>>

\* datetime.date(year, month, day): ok is FALSE for ValueError
date(year, month, day) ==
    [ok |-> /\ year \in 1..9999
            /\ month \in 1..12
            /\ day >= 1
            /\ day <= sal_a(year)[month],
     ymd |-> <<year, month, day>>]

\* while gm <= 12 and gd > sal_a[gm]: gd -= sal_a[gm]; gm += 1
RECURSIVE MonthAndDay(_, _, _)
MonthAndDay(gy, gm, gd) ==
    IF gm <= 12 /\ gd > sal_a(gy)[gm]
    THEN MonthAndDay(gy, gm + 1, gd - sal_a(gy)[gm])
    ELSE <<gy, gm, gd>>

\* _jalali_to_gregorian(jy, jm, jd)
_jalali_to_gregorian(jy0, jm, jd) ==
    LET jy    == jy0 + 1595
        days0 == (0 - 355668) + (365 * jy) + (jy \div 33) * 8
                    + (((jy % 33) + 3) \div 4) + jd
                    + (IF jm < 7 THEN (jm - 1) * 31 ELSE ((jm - 7) * 30) + 186)
        gy1   == 400 * (days0 \div 146097)
        days1 == days0 % 146097
        gy2   == IF days1 > 36524 THEN gy1 + 100 * ((days1 - 1) \div 36524)
                 ELSE gy1
        days2 == IF days1 > 36524
                 THEN LET d == (days1 - 1) % 36524 IN
                      IF d >= 365 THEN d + 1 ELSE d
                 ELSE days1
        gy3   == gy2 + 4 * (days2 \div 1461)
        days3 == days2 % 1461
        gy4   == IF days3 > 365 THEN gy3 + ((days3 - 1) \div 365) ELSE gy3
        days4 == IF days3 > 365 THEN (days3 - 1) % 365 ELSE days3
    IN MonthAndDay(gy4, 1, days4 + 1)

\* g_d_m[0..11], indexed from 1
g_d_m == <<0, 31, 59, 90, 120, 151, 181, 212, 243, 273, 304, 334>>

MutGregorianToJalaliNoLeapShift(gy, gm, gd) ==
    LET days0 == 355666 + (365 * gy) + ((gy + 3) \div 4)
                    - ((gy + 99) \div 100) + ((gy + 399) \div 400)
                    + gd + g_d_m[gm]
        jy1   == (0 - 1595) + 33 * (days0 \div 12053)
        days1 == days0 % 12053
        jy2   == jy1 + 4 * (days1 \div 1461)
        days2 == days1 % 1461
        jy3   == IF days2 > 365 THEN jy2 + ((days2 - 1) \div 365) ELSE jy2
        days3 == IF days2 > 365 THEN (days2 - 1) % 365 ELSE days2
    IN IF days3 < 186
       THEN <<jy3, 1 + (days3 \div 31), 1 + (days3 % 31)>>
       ELSE <<jy3, 7 + ((days3 - 186) \div 30), 1 + ((days3 - 186) % 30)>>

\* _gregorian_to_jalali(gy, gm, gd)
_gregorian_to_jalali(gy, gm, gd) ==
    LET gy2   == IF gm > 2 THEN gy + 1 ELSE gy
        days0 == 355666 + (365 * gy) + ((gy2 + 3) \div 4)
                    - ((gy2 + 99) \div 100) + ((gy2 + 399) \div 400)
                    + gd + g_d_m[gm]
        jy1   == (0 - 1595) + 33 * (days0 \div 12053)
        days1 == days0 % 12053
        jy2   == jy1 + 4 * (days1 \div 1461)
        days2 == days1 % 1461
        jy3   == IF days2 > 365 THEN jy2 + ((days2 - 1) \div 365) ELSE jy2
        days3 == IF days2 > 365 THEN (days2 - 1) % 365 ELSE days2
    IN IF days3 < 186
       THEN <<jy3, 1 + (days3 \div 31), 1 + (days3 % 31)>>
       ELSE <<jy3, 7 + ((days3 - 186) \div 30), 1 + ((days3 - 186) % 30)>>

NoDate == <<0, 0, 0>>

MutParseBirthDateAbove1700(str) ==
    LET raw   == Strip(_persian_to_ascii(str))
        parts == SelectSeq(Split(ReplaceSeparators(raw)), NonEmpty)
    IN
    IF raw = <<>> THEN [kind |-> "None", ymd |-> NoDate]
    ELSE IF Len(parts) # 3 THEN [kind |-> "ValueError", ymd |-> NoDate]
    ELSE IF \E i \in 1..3 : ~ParseInt(parts[i]).ok
         THEN [kind |-> "ValueError", ymd |-> NoDate]
    ELSE LET year  == ParseInt(parts[1]).val
             month == ParseInt(parts[2]).val
             day   == ParseInt(parts[3]).val
             g     == _jalali_to_gregorian(year, month, day)
             d     == IF year > 1700 THEN date(year, month, day)
                      ELSE date(g[1], g[2], g[3])
         IN IF d.ok THEN [kind |-> "date", ymd |-> d.ymd]
            ELSE [kind |-> "ValueError", ymd |-> NoDate]

\* _parse_birth_date(value): kind is "date", "None" or "ValueError"
_parse_birth_date(str) ==
    LET raw   == Strip(_persian_to_ascii(str))
        parts == SelectSeq(Split(ReplaceSeparators(raw)), NonEmpty)
    IN
    IF raw = <<>> THEN [kind |-> "None", ymd |-> NoDate]
    ELSE IF Len(parts) # 3 THEN [kind |-> "ValueError", ymd |-> NoDate]
    ELSE IF \E i \in 1..3 : ~ParseInt(parts[i]).ok
         THEN [kind |-> "ValueError", ymd |-> NoDate]
    ELSE LET year  == ParseInt(parts[1]).val
             month == ParseInt(parts[2]).val
             day   == ParseInt(parts[3]).val
             g     == _jalali_to_gregorian(year, month, day)
             d     == IF year >= 1700 THEN date(year, month, day)
                      ELSE date(g[1], g[2], g[3])
         IN IF d.ok THEN [kind |-> "date", ymd |-> d.ymd]
            ELSE [kind |-> "ValueError", ymd |-> NoDate]

\* the decimal digits of n >= 0
RECURSIVE DigitsOf(_)
DigitsOf(n) ==
    IF n < 10 THEN <<Digits[n + 1]>>
    ELSE DigitsOf(n \div 10) \o <<Digits[(n % 10) + 1]>>

\* f"{n:0wd}" for n >= 0
RECURSIVE ZeroPad(_, _)
ZeroPad(str, w) == IF Len(str) >= w THEN str ELSE ZeroPad(<<"0">> \o str, w)

\* f"{n:0wd}": the sign of a negative number counts in the width
Format(n, w) ==
    IF n < 0 THEN <<"-">> \o ZeroPad(DigitsOf(0 - n), w - 1)
    ELSE ZeroPad(DigitsOf(n), w)

\* f"{jy:04d}/{jm:02d}/{jd:02d}"
DisplayDate(ymd) ==
    Format(ymd[1], 4) \o <<"/">> \o Format(ymd[2], 2) \o <<"/">> \o Format(ymd[3], 2)

\* the years of the dates the model submits: Gregorian (1700 and later) and
\* Jalali, leap and common
GregorianYears == {1700, 1900, 2000, 2023, 2024}
JalaliYears == {1375, 1402, 1403, 1408, 1699}

\* the year/month/day triples the model submits, months 0 and 13 and days
\* 0 and 32 among them
DateTriples == (GregorianYears \cup JalaliYears) \X (0..13) \X (0..32)

\* strings that are no three numbers, or are written otherwise
OddInputs == {
    <<>>, <<" ">>, <<"x">>,
    <<"1", "4", "0", "2", "/", "1", "2">>,
    <<" ", "2", "0", "0", "0", "-", "0", "2", "-", "2", "9">>,
    <<"۱", "۴", "۰", "۳", ".", "۱", "۲", ".", "۳", "۰">>,
    <<"2", "3", "2", "1", "/", "0", "3", "/", "2", "1">>,
    <<"2", "4", "0", "0", "/", "0", "1", "/", "0", "1">>,
    <<"0", "0", "0", "0", "/", "0", "0", "/", "0", "0">> }

----------------------------------------------------------------------------
(* State machine *)

\* the Semester and CoursePeriod numbers a learner starts with
EnrolledSemesters == {1, 3, 4}
EnrolledPeriods == {1, 5, 6}

\* no POST of grade_entry yet
NoPost == [es |-> <<>>, before |-> {}]

\* no request in flight
NoRequests ==
    /\ Student = <<>>
    /\ enrolled = <<>>
    /\ requests = <<>>

\* no birth date submitted
NoBirthDate ==
    [op |-> "init", kind |-> "None", ymd |-> NoDate, jalali |-> NoDate,
     text |-> <<>>, stored |-> NoDate]

NoForm ==
    /\ value = <<>>
    /\ birth_date = NoBirthDate

Init ==
    /\ level \in LevelCodes \cup {""}
    /\ school_class \in SchoolClass \cup {NoClass}
    /\ semesters \in SUBSET EnrolledSemesters
    /\ periods \in SUBSET EnrolledPeriods
    /\ Cardinality(semesters) + Cardinality(periods) <= MaxMarkers
    /\ is_graduated \in BOOLEAN
    /\ scores = {}
    /\ last = [op |-> "init", ret |-> "None", pre |-> student]
    /\ Subject = Catalog
    /\ post = NoPost
    /\ NoRequests
    /\ NoForm

\* the body of grade_entry for the POST es: save the entries, then
\* _auto_promote_student
GradeEntry(es) ==
    LET sc  == SaveEntries(scores, es)
        res == _auto_promote_student(student, sc)
    IN
    /\ scores' = sc
    /\ semesters' = res.semesters
    /\ periods' = res.periods
    /\ is_graduated' = res.is_graduated
    /\ last' = [op |-> "grade_entry", ret |-> res.ret, pre |-> student]
    /\ UNCHANGED <<level, school_class, Subject, request_vars, form_vars>>

\* grade_entry (POST)
grade_entry ==
    \E es \in Submissions : GradeEntry(es) /\ UNCHANGED post

MutPromoteKeepsMarkers ==
    IF ~_can_graduate_ebtedai(student, scores)
    THEN /\ last' = [op |-> "promote_to_moteseta", ret |-> "refused",
                     pre |-> student]
         /\ UNCHANGED <<level, school_class, semesters, periods,
                        is_graduated, scores>>
         /\ UNCHANGED <<Subject, post, request_vars, form_vars>>
    ELSE /\ level' = "moteseta"
         /\ school_class' = NoClass
         /\ is_graduated' = FALSE
         /\ last' = [op |-> "promote_to_moteseta", ret |-> "promoted",
                     pre |-> student]
         /\ UNCHANGED <<semesters, periods, scores>>
         /\ UNCHANGED <<Subject, post, request_vars, form_vars>>

MutPromoteKeepsSemesters ==
    IF ~_can_graduate_ebtedai(student, scores)
    THEN /\ last' = [op |-> "promote_to_moteseta", ret |-> "refused",
                     pre |-> student]
         /\ UNCHANGED <<level, school_class, semesters, periods,
                        is_graduated, scores>>
         /\ UNCHANGED <<Subject, post, request_vars, form_vars>>
    ELSE /\ level' = "moteseta"
         /\ school_class' = NoClass
         /\ is_graduated' = FALSE
         /\ periods' = {1}
         /\ last' = [op |-> "promote_to_moteseta", ret |-> "promoted",
                     pre |-> student]
         /\ UNCHANGED <<semesters, scores>>
         /\ UNCHANGED <<Subject, post, request_vars, form_vars>>

\* student_promote_to_moteseta (POST): refused unless _can_graduate_ebtedai
student_promote_to_moteseta ==
    IF ~_can_graduate_ebtedai(student, scores)
    THEN /\ last' = [op |-> "promote_to_moteseta", ret |-> "refused",
                     pre |-> student]
         /\ UNCHANGED <<level, school_class, semesters, periods,
                        is_graduated, scores>>
         /\ UNCHANGED <<Subject, post, request_vars, form_vars>>
    ELSE /\ level' = "moteseta"
         /\ school_class' = NoClass
         /\ is_graduated' = FALSE
         /\ periods' = {1}
         /\ semesters' = {}
         /\ last' = [op |-> "promote_to_moteseta", ret |-> "promoted",
                     pre |-> student]
         /\ UNCHANGED scores
         /\ UNCHANGED <<Subject, post, request_vars, form_vars>>

Next == grade_entry \/ student_promote_to_moteseta

Spec == Init /\ [][Next]_vars

----------------------------------------------------------------------------
(* The same operations on a learner that starts without the graduated     *)
(* flag: is_graduated is not a field of StudentForm, only the evaluation   *)
(* and the crossover write it.                                             *)

InitEnrolled == Init /\ ~is_graduated

SpecEnrolled == InitEnrolled /\ [][Next]_vars

----------------------------------------------------------------------------
(* The grading workflow that keeps grading the current term: the form of   *)
(* grade_entry lists the subjects of the learner's term, the POST carries  *)
(* a passing score for each of them.  Other POSTs may come in between.     *)

\* the elements of a set of numbers in ascending order
RECURSIVE Ascending(_)
Ascending(S) ==
    IF S = {} THEN <<>>
    ELSE LET m == CHOOSE x \in S : \A y \in S : x <= y
         IN <<m>> \o Ascending(S \ {m})

MutPassingSubmissionBelowPass(st) ==
    LET ids == Ascending({s.id : s \in subjects(st)}) IN
    [i \in 1..Len(ids) |-> [sid |-> DigitsOf(ids[i]), score |-> <<"4", "9">>]]

\* subject_ids[] and scores[] of a POST with 50 for every subject of the
\* learner's term
PassingSubmission(st) ==
    LET ids == Ascending({s.id : s \in subjects(st)}) IN
    [i \in 1..Len(ids) |-> [sid |-> DigitsOf(ids[i]), score |-> <<"5", "0">>]]

\* learners outside a class, not graduated
InitProgress == Init /\ ~is_graduated /\ school_class = NoClass

\* grade_entry (POST) with a passing score for every subject of the term
grade_passing ==
    \E es \in {PassingSubmission(student)} : GradeEntry(es) /\ UNCHANGED post

NextProgress == grade_passing \/ grade_entry

\* the workflow is not put off forever
SpecProgress == InitProgress /\ [][NextProgress]_vars /\ WF_vars(grade_passing)

----------------------------------------------------------------------------
(* A learner created through StudentForm (core/forms.py), then graded and  *)
(* crossed over.  Of the form's fields the model keeps level,              *)
(* is_grade12_graduate, semesters, periods and school_class, the ones      *)
(* StudentForm.clean reads; the other fields are taken as valid.           *)

\* the POSTs of the form
StudentForms ==
    [level : LevelCodes \cup {""}, is_grade12_graduate : BOOLEAN,
     semesters : SUBSET EnrolledSemesters, periods : SUBSET EnrolledPeriods,
     school_class : SchoolClass \cup {NoClass}]

MutCleanKeepsOtherUnit(f) ==
    IF f.level = "" THEN [errors |-> TRUE, cleaned |-> f]
    ELSE LET mismatch == /\ f.school_class.present
                         /\ f.school_class.level # ""
                         /\ f.school_class.level # f.level
         IN
         IF f.level = "aali"
         THEN [errors |-> ~f.is_grade12_graduate \/ f.semesters = {} \/ mismatch,
               cleaned |-> f]
         ELSE [errors |-> f.is_grade12_graduate \/ f.periods = {} \/ mismatch,
               cleaned |-> f]

\* StudentForm.clean: whether an error was added, and cleaned_data
StudentForm_clean(f) ==
    IF f.level = "" THEN [errors |-> TRUE, cleaned |-> f]
    ELSE LET mismatch == /\ f.school_class.present
                         /\ f.school_class.level # ""
                         /\ f.school_class.level # f.level
         IN
         IF f.level = "aali"
         THEN [errors |-> ~f.is_grade12_graduate \/ f.semesters = {} \/ mismatch,
               cleaned |-> [f EXCEPT !.periods = {}]]
         ELSE [errors |-> f.is_grade12_graduate \/ f.periods = {} \/ mismatch,
               cleaned |-> [f EXCEPT !.semesters = {}]]

\* no learner yet
InitForm ==
    /\ level = ""
    /\ school_class = NoClass
    /\ semesters = {}
    /\ periods = {}
    /\ is_graduated = FALSE
    /\ scores = {}
    /\ last = [op |-> "init", ret |-> "None", pre |-> student]
    /\ Subject = Catalog
    /\ post = NoPost
    /\ NoRequests
    /\ NoForm

\* the learner of the model exists
Created == level # ""

\* student_create (POST): form.save() when form.is_valid()
student_create ==
    /\ ~Created
    /\ \E f \in StudentForms :
          LET form == StudentForm_clean(f) IN
          IF form.errors
          THEN /\ last' = [op |-> "student_create", ret |-> "invalid",
                           pre |-> student]
               /\ UNCHANGED <<level, school_class, semesters, periods,
                              is_graduated, scores>>
          ELSE /\ level' = form.cleaned.level
               /\ school_class' = form.cleaned.school_class
               /\ semesters' = form.cleaned.semesters
               /\ periods' = form.cleaned.periods
               /\ last' = [op |-> "student_create", ret |-> "saved",
                           pre |-> student]
               /\ UNCHANGED <<is_graduated, scores>>
    /\ UNCHANGED <<Subject, post, request_vars, form_vars>>

NextForm ==
    \/ student_create
    \/ Created /\ grade_entry
    \/ Created /\ student_promote_to_moteseta

SpecForm == InitForm /\ [][NextForm]_vars

----------------------------------------------------------------------------
(* The exam report, over the catalog of Spec and over one that teaches a   *)
(* middle-level subject in period 6                                        *)

\* the Subject table with the third subject at the middle level
ReportCatalog == {
    [id |-> 1, level |-> "",         semester |-> 3, period |-> 5],
    [id |-> 2, level |-> "",         semester |-> 4, period |-> 6],
    [id |-> 3, level |-> "moteseta", semester |-> 4, period |-> 6] }

InitReport ==
    /\ level \in {"", "ebtedai", "moteseta"}
    /\ school_class \in SchoolClass \cup {NoClass}
    /\ semesters = {}
    /\ periods \in SUBSET {5, 6}
    /\ is_graduated \in BOOLEAN
    /\ scores = {}
    /\ last = [op |-> "init", ret |-> "None", pre |-> student]
    /\ Subject \in {Catalog, ReportCatalog}
    /\ post = NoPost
    /\ NoRequests
    /\ NoForm

\* student_exam_results (GET): the report's can_graduate_ebtedai flag
student_exam_results ==
    /\ last' = [op |-> "exam_results",
                ret |-> IF exam_can_graduate_ebtedai(student, scores)
                        THEN "can_graduate" ELSE "cannot_graduate",
                pre |-> student]
    /\ UNCHANGED <<level, school_class, semesters, periods, is_graduated, scores>>
    /\ UNCHANGED <<Subject, post, request_vars, form_vars>>

NextReport == grade_entry \/ student_exam_results

SpecReport == InitReport /\ [][NextReport]_vars

----------------------------------------------------------------------------
(* Evaluations as concurrent requests: two POSTs of grade_entry reach       *)
(* _auto_promote_student, for one learner or for two, and their database    *)
(* reads and writes interleave.  A request fetches the Student row, reads   *)
(* the markers and the scores and decides, sets the markers, saves the      *)
(* flag.                                                                    *)

\* the primary keys of the Student table
Pks == {1, 2}

\* the requests in flight
RequestIds == {1, 2}

\* the ledgers the learners of the requests start with
RequestLedgers == {
    {},
    {[subject |-> 1, score |-> 50]},
    {[subject |-> 1, score |-> 50], [subject |-> 2, score |-> 50]},
    {[subject |-> 1, score |-> 50], [subject |-> 2, score |-> 50],
     [subject |-> 3, score |-> 50]} }

\* the Student rows, with markers and scores, the requests start from
RequestLearners ==
    [level : {"aali"}, school_class : {NoClass}, semesters : {{3}, {4}},
     periods : {{}}, is_graduated : BOOLEAN, scores : RequestLedgers]
    \cup
    [level : {"ebtedai"}, school_class : {NoClass}, semesters : {{}},
     periods : {{5}, {6}}, is_graduated : BOOLEAN, scores : RequestLedgers]

\* a request before Student.objects.get
NewRequest(pk) ==
    [pk |-> pk, pc |-> "start",
     student |-> [level |-> "", school_class |-> NoClass, is_graduated |-> FALSE],
     seen |-> [semesters |-> {}, periods |-> {}],
     code |-> "", ret |-> "None", semesters |-> {}, periods |-> {},
     is_graduated |-> FALSE, overlap |-> FALSE]

InitRequests ==
    /\ Student \in [Pks -> RequestLearners]
    /\ enrolled = Student
    /\ requests \in {[r \in RequestIds |-> NewRequest(IF r = 1 THEN 1 ELSE pk)]
                        : pk \in Pks}
    /\ level = ""
    /\ school_class = NoClass
    /\ semesters = {}
    /\ periods = {}
    /\ is_graduated = FALSE
    /\ scores = {}
    /\ last = [op |-> "init", ret |-> "None", pre |-> student]
    /\ Subject = Catalog
    /\ post = NoPost
    /\ NoForm

\* another request is between its fetch and its last write
OtherInFlight(r) ==
    \E q \in RequestIds \ {r} : requests[q].pc \in {"got", "decided", "marked"}

MutScoresOfAnyStudent(pk) == UNION {Student[k].scores : k \in Pks}

\* StudentScore.objects.filter(student=student, ...)
ScoresOf(pk) == Student[pk].scores

MutWriteMarkersAdds(row, req) ==
    IF req.code = "aali"
    THEN [row EXCEPT !.semesters = @ \cup req.semesters]
    ELSE [row EXCEPT !.periods = @ \cup req.periods]

\* student.semesters.set([next_sem]) / student.periods.set([next_period])
\* on the row
WriteMarkers(row, req) ==
    IF req.code = "aali" THEN [row EXCEPT !.semesters = req.semesters]
    ELSE [row EXCEPT !.periods = req.periods]

\* student = Student.objects.get(pk=int(student_id))
request_get ==
    \E r \in RequestIds :
        /\ requests[r].pc = "start"
        /\ requests' = [requests EXCEPT
              ![r].pc = "got",
              ![r].student = [level |-> Student[requests[r].pk].level,
                              school_class |-> Student[requests[r].pk].school_class,
                              is_graduated |-> Student[requests[r].pk].is_graduated],
              ![r].overlap = OtherInFlight(r)]
        /\ UNCHANGED <<Student, enrolled, learner_vars, Subject, post, form_vars>>

\* _auto_promote_student up to its decision: the flag of the fetched row,
\* the markers and the scores as the database holds them now
request_evaluate ==
    \E r \in RequestIds :
        LET req == requests[r]
            row == Student[req.pk]
            st  == [level |-> req.student.level,
                    school_class |-> req.student.school_class,
                    semesters |-> row.semesters, periods |-> row.periods,
                    is_graduated |-> req.student.is_graduated]
            res == _auto_promote_student(st, ScoresOf(req.pk))
        IN
        /\ req.pc = "got"
        /\ requests' = [requests EXCEPT
              ![r].pc = IF res.ret = "None" THEN "done" ELSE "decided",
              ![r].seen = [semesters |-> row.semesters, periods |-> row.periods],
              ![r].code = level_code(st),
              ![r].ret = res.ret,
              ![r].semesters = res.semesters,
              ![r].periods = res.periods,
              ![r].is_graduated = res.is_graduated,
              ![r].overlap = @ \/ OtherInFlight(r)]
        /\ UNCHANGED <<Student, enrolled, learner_vars, Subject, post, form_vars>>

\* student.semesters.set([next_sem]) / student.periods.set([next_period])
request_set ==
    \E r \in RequestIds :
        /\ requests[r].pc = "decided"
        /\ requests[r].ret = "promoted"
        /\ Student' = [Student EXCEPT
              ![requests[r].pk] = WriteMarkers(@, requests[r])]
        /\ requests' = [requests EXCEPT ![r].pc = "marked"]
        /\ UNCHANGED <<enrolled, learner_vars, Subject, post, form_vars>>

\* student.save(update_fields=['is_graduated'])
request_save ==
    \E r \in RequestIds :
        /\ \/ requests[r].pc = "marked"
           \/ requests[r].pc = "decided" /\ requests[r].ret = "graduated"
        /\ Student' = [Student EXCEPT
              ![requests[r].pk].is_graduated = requests[r].is_graduated]
        /\ requests' = [requests EXCEPT ![r].pc = "done"]
        /\ UNCHANGED <<enrolled, learner_vars, Subject, post, form_vars>>

NextRequests == request_get \/ request_evaluate \/ request_set \/ request_save

SpecRequests == InitRequests /\ [][NextRequests]_vars

----------------------------------------------------------------------------
(* A crossover request beside an evaluation of the same learner.  Request  *)
(* 1 is the evaluation above; request 2 is student_promote_to_moteseta,    *)
(* one step per database statement, its position in pc "promote_...".      *)

\* the learner of both requests
CrossoverPk == 1

InitCrossover ==
    /\ Student \in {[pk \in Pks |->
                       IF pk = CrossoverPk THEN row
                       ELSE [level |-> "aali", school_class |-> NoClass,
                             semesters |-> {3}, periods |-> {},
                             is_graduated |-> FALSE, scores |-> {}]]
                    : row \in RequestLearners}
    /\ enrolled = Student
    /\ requests = [r \in RequestIds |->
                      IF r = 1 THEN NewRequest(CrossoverPk)
                      ELSE [NewRequest(CrossoverPk) EXCEPT !.pc = "promote_start"]]
    /\ level = ""
    /\ school_class = NoClass
    /\ semesters = {}
    /\ periods = {}
    /\ is_graduated = FALSE
    /\ scores = {}
    /\ last = [op |-> "init", ret |-> "None", pre |-> student]
    /\ Subject = Catalog
    /\ post = NoPost
    /\ NoForm

\* student = get_object_or_404(Student, pk=pk)
promote_get ==
    \E r \in RequestIds :
        /\ requests[r].pc = "promote_start"
        /\ requests' = [requests EXCEPT
              ![r].pc = "promote_got",
              ![r].student = [level |-> Student[requests[r].pk].level,
                              school_class |-> Student[requests[r].pk].school_class,
                              is_graduated |-> Student[requests[r].pk].is_graduated]]
        /\ UNCHANGED <<Student, enrolled, learner_vars, Subject, post, form_vars>>

\* can_graduate, _ = _can_graduate_ebtedai(student): the level of the
\* fetched row, the markers and the scores as the database holds them now
promote_check ==
    \E r \in RequestIds :
        LET req == requests[r]
            row == Student[req.pk]
            st  == [level |-> req.student.level,
                    school_class |-> req.student.school_class,
                    semesters |-> row.semesters, periods |-> row.periods,
                    is_graduated |-> req.student.is_graduated]
            can_graduate == _can_graduate_ebtedai(st, ScoresOf(req.pk))
        IN
        /\ req.pc = "promote_got"
        /\ requests' = [requests EXCEPT
              ![r].pc = IF can_graduate THEN "promote_checked" ELSE "done",
              ![r].seen = [semesters |-> row.semesters, periods |-> row.periods],
              ![r].ret = IF can_graduate THEN "promoted" ELSE "refused"]
        /\ UNCHANGED <<Student, enrolled, learner_vars, Subject, post, form_vars>>

\* student.save(update_fields=['level', 'school_class', 'is_graduated'])
promote_save ==
    \E r \in RequestIds :
        /\ requests[r].pc = "promote_checked"
        /\ Student' = [Student EXCEPT
              ![requests[r].pk].level = "moteseta",
              ![requests[r].pk].school_class = NoClass,
              ![requests[r].pk].is_graduated = FALSE]
        /\ requests' = [requests EXCEPT ![r].pc = "promote_saved"]
        /\ UNCHANGED <<enrolled, learner_vars, Subject, post, form_vars>>

\* student.periods.set([next_period])
promote_set_periods ==
    \E r \in RequestIds :
        /\ requests[r].pc = "promote_saved"
        /\ Student' = [Student EXCEPT ![requests[r].pk].periods = {1}]
        /\ requests' = [requests EXCEPT ![r].pc = "promote_marked"]
        /\ UNCHANGED <<enrolled, learner_vars, Subject, post, form_vars>>

\* student.semesters.clear()
promote_clear_semesters ==
    \E r \in RequestIds :
        /\ requests[r].pc = "promote_marked"
        /\ Student' = [Student EXCEPT ![requests[r].pk].semesters = {}]
        /\ requests' = [requests EXCEPT ![r].pc = "done"]
        /\ UNCHANGED <<enrolled, learner_vars, Subject, post, form_vars>>

NextCrossover ==
    \/ request_get \/ request_evaluate \/ request_set \/ request_save
    \/ promote_get \/ promote_check \/ promote_save
    \/ promote_set_periods \/ promote_clear_semesters

SpecCrossover == InitCrossover /\ [][NextCrossover]_vars

----------------------------------------------------------------------------
(* The birth date of StudentForm: clean_birth_date parses the submitted     *)
(* string, __init__ shows the stored date as a Jalali string                *)

InitDates ==
    /\ value \in {DisplayDate(t) : t \in DateTriples} \cup OddInputs
    /\ birth_date = NoBirthDate
    /\ level = ""
    /\ school_class = NoClass
    /\ semesters = {}
    /\ periods = {}
    /\ is_graduated = FALSE
    /\ scores = {}
    /\ last = [op |-> "init", ret |-> "None", pre |-> student]
    /\ Subject = Catalog
    /\ post = NoPost
    /\ NoRequests

\* StudentForm.clean_birth_date: "required" and "invalid" are the two
\* ValidationErrors
clean_birth_date ==
    LET res == _parse_birth_date(value) IN
    /\ birth_date' =
          [op |-> "clean",
           kind |-> IF value = <<>> THEN "required"
                    ELSE IF res.kind = "ValueError" THEN "invalid"
                    ELSE res.kind,
           ymd |-> IF value = <<>> THEN NoDate ELSE res.ymd,
           jalali |-> NoDate, text |-> <<>>, stored |-> NoDate]
    /\ UNCHANGED <<value, learner_vars, Subject, post, request_vars>>

\* StudentForm.__init__ on an instance with the cleaned birth date
display_birth_date ==
    /\ birth_date.kind = "date"
    /\ LET j == _gregorian_to_jalali(birth_date.ymd[1], birth_date.ymd[2],
                                     birth_date.ymd[3])
       IN birth_date' = [birth_date EXCEPT !.op = "display", !.jalali = j,
                                           !.text = DisplayDate(j),
                                           !.stored = NoDate]
    /\ UNCHANGED <<value, learner_vars, Subject, post, request_vars>>

\* the displayed form posted back unedited: clean_birth_date on the
\* initial string, stored keeps the date the form was opened with
resave_birth_date ==
    /\ birth_date.op = "display"
    /\ LET res == _parse_birth_date(birth_date.text) IN
       /\ value' = birth_date.text
       /\ birth_date' =
             [birth_date EXCEPT
                 !.op = "resave",
                 !.kind = IF res.kind = "ValueError" THEN "invalid" ELSE res.kind,
                 !.ymd = res.ymd,
                 !.stored = birth_date.ymd]
    /\ UNCHANGED <<learner_vars, Subject, post, request_vars>>

NextDates == clean_birth_date \/ display_birth_date \/ resave_birth_date

SpecDates == InitDates /\ [][NextDates]_vars

----------------------------------------------------------------------------
(* The score ledger: grade_entry with the POST and the ledger it found kept *)
(* in post, over a wider range of submitted scores                          *)

InitLedger ==
    /\ level = "aali"
    /\ school_class = NoClass
    /\ semesters = {3}
    /\ periods = {}
    /\ is_graduated \in BOOLEAN
    /\ scores = {}
    /\ last = [op |-> "init", ret |-> "None", pre |-> student]
    /\ Subject = Catalog
    /\ post = NoPost
    /\ NoRequests
    /\ NoForm

\* grade_entry (POST), the POST kept
grade_entry_post ==
    \E es \in LedgerSubmissions :
        GradeEntry(es) /\ post' = [es |-> es, before |-> scores]

NextLedger == grade_entry_post

SpecLedger == InitLedger /\ [][NextLedger]_vars

----------------------------------------------------------------------------
(* Properties.  `last` records the last operation, what it returned and    *)
(* the learner it started from; scores is the ledger the evaluation read.  *)

Evaluated == last.op = "grade_entry"

Pre == last.pre

\* the evaluation left the term markers and the graduated flag alone
Held ==
    /\ semesters = Pre.semesters
    /\ periods = Pre.periods
    /\ is_graduated = Pre.is_graduated

Decided == last.ret \in {"promoted", "graduated"}

\* the ledger holds a score of at least 50 for subject s
Passed(s) == \E r \in scores : r.subject = s.id /\ r.score # Null /\ r.score >= 50

\* subject s has no record, or only an ungraded one
Ungraded(s) == \A r \in scores : r.subject = s.id => r.score = Null

\* the learner before the evaluation had every resolved subject passed,
\* and there was at least one
AllPassed == subjects(Pre) # {} /\ \A s \in subjects(Pre) : Passed(s)

\* C1: an evaluation that finds a resolved subject without a score (no
\* record, or an ungraded record) leaves the markers and the graduated flag
\* as they were and returns no decision, whatever the other scores are.
C1_IncompleteHeld ==
    (Evaluated /\ \E s \in subjects(Pre) : Ungraded(s))
        => Held /\ last.ret = "None"

\* a learner with two resolved subjects, one passed and one without a
\* record, was evaluated and held
C1_Witness ==
    /\ Evaluated
    /\ ~Pre.is_graduated
    /\ \E s, u \in subjects(Pre) :
          /\ Passed(s)
          /\ \A r \in scores : r.subject # u.id
    /\ Held

\* C2: an evaluation advances or graduates only if every resolved subject
\* has a score >= 50; a score below 50 on a resolved subject holds the
\* learner; scores of exactly 50 on every resolved subject pass.
C2_PassThreshold ==
    Evaluated =>
        /\ Decided => \A s \in subjects(Pre) : Passed(s)
        /\ (\E s \in subjects(Pre) : \E r \in scores :
                r.subject = s.id /\ r.score # Null /\ r.score <= 49)
             => Held /\ last.ret = "None"
        /\ ( /\ ~Pre.is_graduated
             /\ subjects(Pre) # {}
             /\ \A s \in subjects(Pre) : \E r \in scores :
                    r.subject = s.id /\ r.score = 50 )
             => Decided

\* a learner was held on a score of 49 beside a score of 50
C2_Witness ==
    /\ Evaluated
    /\ ~Pre.is_graduated
    /\ \E s, u \in subjects(Pre) :
          /\ [subject |-> s.id, score |-> 49] \in scores
          /\ [subject |-> u.id, score |-> 50] \in scores
    /\ Held

\* C3: a non-graduated learner below the ceiling (semester < 4 at the upper
\* level, period < 6 at the middle and lower level) whose resolved subjects
\* are all passed ends the evaluation with the single marker n + 1 of that
\* unit type, the other unit's markers untouched and the flag false.
C3_Advance ==
    (Evaluated /\ ~Pre.is_graduated /\ AllPassed) =>
        /\ (level_code(Pre) = "aali" /\ latest_semester(Pre) < 4) =>
              /\ semesters = {latest_semester(Pre) + 1}
              /\ periods = Pre.periods
              /\ ~is_graduated
              /\ last.ret = "promoted"
        /\ (level_code(Pre) \in {"moteseta", "ebtedai"}
                /\ latest_period(Pre) < 6) =>
              /\ periods = {latest_period(Pre) + 1}
              /\ semesters = Pre.semesters
              /\ ~is_graduated
              /\ last.ret = "promoted"

\* an upper-level learner holding semesters {1, 3} was advanced to {4}
C3_Witness ==
    /\ Evaluated
    /\ ~Pre.is_graduated
    /\ AllPassed
    /\ Pre.level = "aali"
    /\ Pre.semesters = {1, 3}
    /\ semesters = {4}
    /\ ~is_graduated

\* C4: a non-graduated learner at the ceiling (semester 4 upper, period 6
\* middle and lower) whose resolved subjects are all passed ends the
\* evaluation graduated, with the term markers unchanged.
C4_Graduate ==
    ( /\ Evaluated /\ ~Pre.is_graduated /\ AllPassed
      /\ \/ level_code(Pre) = "aali" /\ latest_semester(Pre) >= 4
         \/ level_code(Pre) \in {"moteseta", "ebtedai"}
               /\ latest_period(Pre) >= 6 ) =>
            /\ is_graduated
            /\ semesters = Pre.semesters
            /\ periods = Pre.periods
            /\ last.ret = "graduated"

\* a lower-level learner at period 6 with both resolved subjects passed
\* was graduated
C4_Witness ==
    /\ Evaluated
    /\ ~Pre.is_graduated
    /\ Pre.level = "ebtedai"
    /\ Pre.periods = {6}
    /\ Cardinality(subjects(Pre)) = 2
    /\ AllPassed
    /\ is_graduated
    /\ periods = {6}

\* C5: evaluating a learner whose graduated flag is already true returns
\* no decision and changes neither the markers nor the flag, whatever the
\* ledger holds and however often it is repeated.
C5_GraduatedNoOp ==
    (Evaluated /\ Pre.is_graduated) => Held /\ is_graduated /\ last.ret = "None"

\* a graduated learner below the ceiling with every resolved subject
\* passed was evaluated once more and stayed as it was
C5_Witness ==
    /\ Evaluated
    /\ Pre.is_graduated
    /\ AllPassed
    /\ latest_semester(Pre) = 3
    /\ level_code(Pre) = "aali"
    /\ Held

\* C6: an operation that starts with the graduated flag true and ends with
\* it false is the crossover student_promote_to_moteseta, which also resets
\* the markers to period 1; no grade submission or evaluation clears it.
C6_GraduatedTerminal ==
    (Pre.is_graduated /\ ~is_graduated) =>
        /\ last.op = "promote_to_moteseta"
        /\ last.ret = "promoted"
        /\ periods = {1}
        /\ semesters = {}

\* the crossover cleared the flag of a graduated learner
C6_Witness ==
    /\ last.op = "promote_to_moteseta"
    /\ Pre.is_graduated
    /\ ~is_graduated
    /\ periods = {1}

\* the learner has no explicit level and no class level
NoLevel(st) == st.level = "" /\ (~st.school_class.present \/ st.school_class.level = "")

C7_Inferred(st) ==
    IF latest_period(st) # 0 THEN "moteseta"
    ELSE IF latest_semester(st) # 0 THEN "aali"
    ELSE ""

PeriodAtUpper(st) ==
    st.level = "aali" /\ st.periods # {} /\ st.semesters = {} /\ ~st.is_graduated

C9_Marker(assigned, of_class) ==
    IF assigned # {} THEN CHOOSE n \in assigned : \A m \in assigned : m <= n
    ELSE of_class

\* the learner st holding just its effective markers, its class without a
\* configured term
C9_Effective(st) ==
    LET sem == C9_Marker(st.semesters, st.school_class.semester)
        per == C9_Marker(st.periods, st.school_class.period)
    IN [st EXCEPT !.semesters = IF sem = 0 THEN {} ELSE {sem},
                  !.periods = IF per = 0 THEN {} ELSE {per},
                  !.school_class = [@ EXCEPT !.semester = 0, !.period = 0]]

\* C9: the evaluation (and the crossover's eligibility check) decides as
\* for a learner whose only marker of each unit type is the largest one
\* assigned, or the class's configured one when none is assigned: the same
\* decision and, on an advance, the same new marker of the level's unit.
C9_MaxMarker ==
    /\ Evaluated =>
          LET res == _auto_promote_student(C9_Effective(Pre), scores) IN
          /\ last.ret = res.ret
          /\ last.ret = "promoted" =>
                IF level_code(Pre) = "aali" THEN semesters = res.semesters
                ELSE periods = res.periods
    /\ last.op = "promote_to_moteseta" =>
          (last.ret = "promoted") = _can_graduate_ebtedai(C9_Effective(Pre), scores)

\* a learner holding semesters {1, 3} was evaluated at semester 3: the
\* semester-3 subject decided and the learner moved to semester 4
C9_Witness ==
    /\ Evaluated
    /\ Pre.semesters = {1, 3}
    /\ Pre.school_class.present
    /\ last.ret = "promoted"
    /\ semesters = {4}

\* the subjects of the claim: level equal to the learner's effective level
\* or unset, and term-unit value equal to the effective marker
C10_Resolved(st) ==
    {s \in Subject :
        /\ s.level = level_code(st) \/ s.level = ""
        /\ IF level_code(st) = "aali" THEN s.semester = latest_semester(st)
           ELSE s.period = latest_period(st)}

\* the learner has an effective level and a marker of its unit type
C10_Determined(st) ==
    /\ ~st.is_graduated
    /\ level_code(st) # ""
    /\ IF level_code(st) = "aali" THEN latest_semester(st) # 0
       ELSE latest_period(st) # 0

\* C10: the evaluation of a learner with a level and a marker decides
\* (advance or graduate) exactly when the subjects of C10_Resolved are not
\* empty and all passed; the scores of every other subject are immaterial.
C10_SubjectResolution ==
    (Evaluated /\ C10_Determined(Pre)) =>
        (Decided <=> ( /\ C10_Resolved(Pre) # {}
                       /\ \A s \in C10_Resolved(Pre) : Passed(s) ))

\* an upper-level learner at semester 4 was graduated on the one subject
\* without a level, while the lower-level subject of semester 4 had no
\* passing score
C10_Witness ==
    /\ Evaluated
    /\ C10_Determined(Pre)
    /\ Pre.level = "aali"
    /\ latest_semester(Pre) = 4
    /\ last.ret = "graduated"
    /\ \E s \in Subject : s.semester = 4 /\ s.level = "ebtedai" /\ ~Passed(s)

\* the learner has no marker of the unit type its level is evaluated in
C11_NoMarker(st) ==
    IF level_code(st) = "aali" THEN latest_semester(st) = 0
    ELSE latest_period(st) = 0

\* C11: an evaluation of a learner whose marker of the level's unit type is
\* absent, or for whose level and marker the catalog has no subject, returns
\* no decision and leaves the markers and the graduated flag unchanged, even
\* when every recorded score is a passing one.
C11_NothingToEvaluate ==
    (Evaluated /\ (C11_NoMarker(Pre) \/ C10_Resolved(Pre) = {}))
        => Held /\ last.ret = "None"

\* an upper-level learner at semester 1, for which the catalog has no
\* subject, was evaluated with all three subjects of the catalog passed and
\* stayed as it was
C11_Witness ==
    /\ Evaluated
    /\ ~Pre.is_graduated
    /\ Pre.level = "aali"
    /\ latest_semester(Pre) = 1
    /\ C10_Resolved(Pre) = {}
    /\ \A s \in Subject : Passed(s)
    /\ Held
    /\ last.ret = "None"

Crossover == last.op = "promote_to_moteseta"

\* the period-6 subjects of the lower level: level ebtedai or unset
C12_SixthPeriodSubjects ==
    {s \in Subject : s.period = 6 /\ s.level \in {"ebtedai", ""}}

\* a lower-level learner (by its own level, else its class's) at period 6
\* with every period-6 subject passed
C12_Eligible(st) ==
    /\ level_obj(st) = "ebtedai"
    /\ latest_period(st) = 6
    /\ C12_SixthPeriodSubjects # {}
    /\ \A s \in C12_SixthPeriodSubjects : Passed(s)

\* C12: after student_promote_to_moteseta on an eligible lower-level
\* learner at period 6 the level is the middle one, the graduated flag is
\* false, the period markers are exactly {1}, the semester markers are
\* empty and the class group is cleared.
C12_CrossoverPost ==
    (Crossover /\ C12_Eligible(Pre)) =>
        /\ last.ret = "promoted"
        /\ level = "moteseta"
        /\ ~is_graduated
        /\ periods = {1}
        /\ semesters = {}
        /\ school_class = NoClass

\* a graduated lower-level learner with a class group, a semester marker
\* and period 6 was crossed over
C12_Witness ==
    /\ Crossover
    /\ C12_Eligible(Pre)
    /\ Pre.is_graduated
    /\ Pre.school_class.present
    /\ Pre.semesters # {}
    /\ level = "moteseta"
    /\ periods = {1}
    /\ semesters = {}

\* the crossover changed nothing of the learner
C13_Refused ==
    /\ last.ret = "refused"
    /\ level = Pre.level
    /\ school_class = Pre.school_class
    /\ Held

\* C13 as stated: the crossover takes effect only for a learner whose
\* graduated flag is true, at the lower level, at period 6, with every
\* period-6 subject passed; for every other learner it is refused and
\* changes nothing.
C13_GatedByFlag ==
    Crossover =>
        IF Pre.is_graduated /\ C12_Eligible(Pre) THEN last.ret = "promoted"
        ELSE C13_Refused

\* the learner the crossover accepts: lower level by its own level or its
\* class's, or no level at all; period 6; every period-6 subject passed
C13_Eligible(st) ==
    /\ level_obj(st) = "ebtedai" \/ NoLevel(st)
    /\ latest_period(st) = 6
    /\ C12_SixthPeriodSubjects # {}
    /\ \A s \in C12_SixthPeriodSubjects : Passed(s)

\* C13 amended: the crossover takes effect exactly for a learner whose
\* level (its own, else its class's, and taken as the lower one when neither
\* is set) is the lower one, at period 6, with every period-6 subject
\* passed, whether or not the graduated flag is set; for every other
\* learner it is refused and level, markers, class group and flag are
\* unchanged.
C13_GatedByScores ==
    Crossover =>
        IF C13_Eligible(Pre)
        THEN last.ret = "promoted" /\ level = "moteseta" /\ periods = {1}
        ELSE C13_Refused

\* a lower-level learner whose graduated flag was false was crossed over
C13_Witness ==
    /\ Crossover
    /\ Pre.level = "ebtedai"
    /\ ~Pre.is_graduated
    /\ last.ret = "promoted"
    /\ level = "moteseta"

\* the score an entry of a POST submits: Null for the empty string
C15_Submitted(e) == IF e.score = <<>> THEN Null ELSE IntOf[e.score].val

\* C15: the ledger holds at most one record per subject of the learner,
\* and a POST of one accepted entry for a subject leaves exactly the
\* submitted score for it, in place of the record the subject had, and
\* every other record as it was.
C15_OneRecordPerSubject ==
    /\ \A r1, r2 \in scores : r1.subject = r2.subject => r1 = r2
    /\ \A e \in LedgerEntries :
          ( /\ Evaluated
            /\ post.es = <<e>>
            /\ e.sid \in {<<"1">>, <<"2">>}
            /\ e.score \in {<<>>, <<"0">>, <<"5", "0">>, <<"1", "0", "0">>} )
          => LET s == IntOf[e.sid].val IN
             /\ {r \in scores : r.subject = s}
                   = {[subject |-> s, score |-> C15_Submitted(e)]}
             /\ {r \in scores : r.subject # s}
                   = {r \in post.before : r.subject # s}

\* a POST of 50 for subject 1 replaced the recorded 100, beside a record
\* of subject 2
C15_Witness ==
    /\ Evaluated
    /\ post.es = <<[sid |-> <<"1">>, score |-> <<"5", "0">>]>>
    /\ post.before = {[subject |-> 1, score |-> 100], [subject |-> 2, score |-> 0]}
    /\ scores = {[subject |-> 1, score |-> 50], [subject |-> 2, score |-> 0]}

\* C16: every stored score is ungraded or an integer from 0 to 100, and a
\* POST of one entry whose score is below 0 or above 100 leaves the ledger
\* as it found it.
C16_ScoreRange ==
    /\ \A r \in scores : r.score = Null \/ r.score \in 0..100
    /\ \A e \in LedgerEntries :
          ( /\ Evaluated
            /\ post.es = <<e>>
            /\ e.score \in {<<"1", "0", "1">>, <<"-", "1">>} )
          => scores = post.before

\* a POST of 101 for subject 1 left the recorded 100 and 0 in place
C16_Witness ==
    /\ Evaluated
    /\ post.es = <<[sid |-> <<"1">>, score |-> <<"1", "0", "1">>]>>
    /\ post.before = {[subject |-> 1, score |-> 100], [subject |-> 2, score |-> 0]}
    /\ scores = post.before

\* C14: the exam report's can_graduate_ebtedai flag is true exactly when
\* _can_graduate_ebtedai accepts the learner, for every learner, catalog
\* and ledger, learners without an explicit level included.
C14_ReportAgrees ==
    last.op = "exam_results" =>
        ((last.ret = "can_graduate") <=> _can_graduate_ebtedai(Pre, scores))

\* the Student row as the evaluation reads it
RowStudent(row) ==
    [level |-> row.level, school_class |-> row.school_class,
     semesters |-> row.semesters, periods |-> row.periods,
     is_graduated |-> row.is_graduated]

\* the row after one evaluation of it, run alone
Once(row) ==
    LET res == _auto_promote_student(RowStudent(row), row.scores) IN
    [row EXCEPT !.semesters = res.semesters, !.periods = res.periods,
                !.is_graduated = res.is_graduated]

\* the requests that evaluate the learner pk
RequestsOf(pk) == {r \in RequestIds : requests[r].pk = pk}

\* C17: when the two evaluations are for different learners, whatever the
\* interleaving of their steps, every learner's row is changed by its own
\* evaluation only: it is as enrolled until that evaluation writes, as one
\* evaluation run alone leaves it once that evaluation is done, and a
\* learner nobody evaluates stays as enrolled; scores never change.
C17_Independent ==
    \A pk \in Pks :
        /\ Student[pk].scores = enrolled[pk].scores
        /\ RequestsOf(pk) = {} => Student[pk] = enrolled[pk]
        /\ \A r \in RequestsOf(pk) :
              Cardinality(RequestsOf(pk)) = 1 =>
                /\ requests[r].pc \in {"start", "got", "decided"}
                      => Student[pk] = enrolled[pk]
                /\ requests[r].pc = "marked"
                      => /\ Student[pk].is_graduated = enrolled[pk].is_graduated
                         /\ Student[pk].semesters = Once(enrolled[pk]).semesters
                         /\ Student[pk].periods = Once(enrolled[pk]).periods
                /\ requests[r].pc = "done"
                      => Student[pk] = Once(enrolled[pk])

\* two overlapping evaluations of different learners with different
\* ledgers are done: one learner was advanced, the other graduated
C17_Witness ==
    /\ requests[1].pk # requests[2].pk
    /\ requests[1].pc = "done" /\ requests[2].pc = "done"
    /\ requests[1].overlap /\ requests[2].overlap
    /\ requests[1].ret = "promoted" /\ requests[2].ret = "graduated"
    /\ enrolled[1].scores # enrolled[2].scores
    /\ Student[1].semesters = {4} /\ ~Student[1].is_graduated
    /\ Student[2].is_graduated

\* both requests evaluate learner 1 and both are done
BothDone ==
    /\ RequestsOf(1) = RequestIds
    /\ \A r \in RequestIds : requests[r].pc = "done"

\* neither request fetched or read while the other was in flight
Serial == \A r \in RequestIds : ~requests[r].overlap

\* C18: two evaluations of one learner that run one after the other leave
\* the learner as two evaluations in sequence do; two that overlap leave
\* it either so or as a single evaluation does, the second one's decision
\* being taken on the marker the first had not yet written.
C18_LostUpdate ==
    BothDone =>
        /\ Student[1] \in {Once(enrolled[1]), Once(Once(enrolled[1]))}
        /\ Serial => Student[1] = Once(Once(enrolled[1]))

\* both evaluations read semester 3 before either wrote: the learner ends
\* at semester 4 and not graduated, where two evaluations in sequence
\* graduate it
C18_Witness ==
    /\ BothDone
    /\ ~Serial
    /\ requests[1].seen.semesters = {3}
    /\ requests[2].seen.semesters = {3}
    /\ Student[1].semesters = {4}
    /\ ~Student[1].is_graduated
    /\ Once(Once(enrolled[1])).is_graduated
    /\ Student[1] # Once(Once(enrolled[1]))

\* the submitted string is the triple t written out
C19_Typed(t) == value = DisplayDate(t)

\* the three numbers of a submitted string of the form dddd/dd/dd
C19_Submitted ==
    IF /\ Len(value) = 10
       /\ \A i \in {1, 2, 3, 4, 6, 7, 9, 10} : IsDigit(value[i])
    THEN <<DigitsVal(SubSeq(value, 1, 4)), DigitsVal(SubSeq(value, 6, 7)),
           DigitsVal(SubSeq(value, 9, 10))>>
    ELSE NoDate

\* leap years of the Jalali calendar by the 33-year cycle
C19_JalaliLeap(y) == (y % 33) \in {1, 5, 9, 13, 17, 22, 26, 30}

\* the days of a Jalali month
C19_JalaliDays(y, m) ==
    IF m <= 6 THEN 31
    ELSE IF m <= 11 THEN 30
    ELSE IF C19_JalaliLeap(y) THEN 30 ELSE 29

C19_ValidJalali(t) ==
    t[2] \in 1..12 /\ t[3] >= 1 /\ t[3] <= C19_JalaliDays(t[1], t[2])

\* the days of a Gregorian month
C19_GregorianDays(y, m) ==
    IF m = 2 THEN (IF (y % 4 = 0 /\ y % 100 # 0) \/ y % 400 = 0 THEN 29 ELSE 28)
    ELSE IF m \in {4, 6, 9, 11} THEN 30 ELSE 31

C19_ValidGregorian(t) ==
    t[2] \in 1..12 /\ t[3] >= 1 /\ t[3] <= C19_GregorianDays(t[1], t[2])

\* C19: a stored Gregorian date converted to Jalali converts back to
\* itself, every valid Gregorian date submitted is stored as itself, and a
\* valid Jalali date submitted, converted to Gregorian and back, is itself.
C19_RoundTrip ==
    birth_date.op = "display" =>
        /\ _jalali_to_gregorian(birth_date.jalali[1], birth_date.jalali[2],
                                birth_date.jalali[3]) = birth_date.ymd
        /\ LET t == C19_Submitted IN
           C19_Typed(t) =>
                /\ (t[1] \in GregorianYears /\ C19_ValidGregorian(t))
                      => birth_date.ymd = t
                /\ (t[1] \in JalaliYears /\ C19_ValidJalali(t))
                      => birth_date.jalali = t

\* the leap day 1403/12/30 was stored as 2025-03-20 and shown again as
\* 1403/12/30
C19_Witness ==
    /\ birth_date.op = "display"
    /\ C19_Typed(<<1403, 12, 30>>)
    /\ birth_date.ymd = <<2025, 3, 20>>
    /\ birth_date.jalali = <<1403, 12, 30>>

\* C20: a submitted date of three numbers whose month is outside 1..12, or
\* whose day is outside the days of that month and year in the calendar it
\* is read in, is refused: no date is returned for it.
C20_InvalidRefused ==
    birth_date.op = "clean" =>
        LET t == C19_Submitted IN
        ( /\ C19_Typed(t)
          /\ \/ t[1] \in GregorianYears /\ ~C19_ValidGregorian(t)
             \/ t[1] \in JalaliYears /\ ~C19_ValidJalali(t) )
        => birth_date.kind = "invalid"

\* C21: a submitted date whose year is 1700 or later is returned as it was
\* written, without conversion; one whose year is 1699 or earlier is
\* returned converted from the Jalali calendar, 621 or 622 years later.
C21_Heuristic ==
    birth_date.op = "clean" =>
        LET t == C19_Submitted IN
        (C19_Typed(t) /\ t # NoDate) =>
            /\ (t[1] >= 1700 /\ C19_ValidGregorian(t))
                  => birth_date.kind = "date" /\ birth_date.ymd = t
            /\ (t[1] >= 1700 /\ birth_date.kind = "date") => birth_date.ymd = t
            /\ (t[1] <= 1699 /\ birth_date.kind = "date")
                  => /\ birth_date.ymd = _jalali_to_gregorian(t[1], t[2], t[3])
                     /\ birth_date.ymd[1] - t[1] \in {621, 622}
            /\ (t[1] <= 1699 /\ C19_ValidJalali(t)) => birth_date.kind = "date"

\* 1699/01/01 was converted to 2320-03-21
C21_Witness ==
    /\ birth_date.op = "clean"
    /\ C19_Typed(<<1699, 1, 1>>)
    /\ birth_date.kind = "date"
    /\ birth_date.ymd = <<2320, 3, 21>>

\* C22 as stated: the display string of every stored date parses back to
\* that date, so re-saving an unedited form never changes it.
C22_DisplayParsesBack ==
    birth_date.op = "resave" =>
        birth_date.kind = "date" /\ birth_date.ymd = birth_date.stored

\* the digits of the Persian script, by value
C23_Alternate == [d \in {"0", "1", "2", "3", "4", "5", "6", "7", "8", "9"} |->
    CASE d = "0" -> "۰" [] d = "1" -> "۱" [] d = "2" -> "۲" [] d = "3" -> "۳"
      [] d = "4" -> "۴" [] d = "5" -> "۵" [] d = "6" -> "۶" [] d = "7" -> "۷"
      [] d = "8" -> "۸" [] d = "9" -> "۹"]

\* the string with every ASCII digit replaced by its Persian digit
C23_Persian(str) ==
    [i \in 1..Len(str) |->
        IF str[i] \in DOMAIN C23_Alternate THEN C23_Alternate[str[i]] ELSE str[i]]

\* the string holds no Persian digit
C23_Ascii(str) == \A i \in 1..Len(str) : str[i] \notin {C23_Alternate[d] : d \in DOMAIN C23_Alternate}

\* C23: the submitted string written in Persian digits is parsed to the
\* same date or the same failure as the string itself, and normalization
\* turns the Persian-digit string back into the ASCII one, every other
\* character in place.
C23_DigitNormalization ==
    birth_date.op = "clean" =>
        LET p   == C23_Persian(value)
            res == _parse_birth_date(p)
        IN
        /\ value # <<>> =>
              /\ birth_date.kind = (IF res.kind = "ValueError" THEN "invalid"
                                    ELSE res.kind)
              /\ birth_date.ymd = res.ymd
        /\ C23_Ascii(value) => _persian_to_ascii(p) = value
        /\ Len(_persian_to_ascii(value)) = Len(value)
        /\ \A i \in 1..Len(value) :
              value[i] \in {"/", "-", ".", " "} => _persian_to_ascii(value)[i] = value[i]

\* the string of Persian digits and dots for 1403.12.30 was parsed to
\* 2025-03-20
C23_Witness ==
    /\ birth_date.op = "clean"
    /\ value = <<"۱", "۴", "۰", "۳", ".", "۱", "۲", ".", "۳", "۰">>
    /\ birth_date.kind = "date"
    /\ birth_date.ymd = <<2025, 3, 20>>

\* the effective term marker of learner st on the track of its effective
\* level
C24_Ordinal(st) ==
    IF level_code(st) = "aali" THEN latest_semester(st) ELSE latest_period(st)

\* the terminal ceiling of the effective level of learner st
C24_Ceiling(st) ==
    IF level_code(st) = "aali" THEN SemesterCeiling ELSE PeriodCeiling

\* C24: a learner that started non-graduated and has the graduated flag
\* has an effective level and its effective term marker at that level's
\* ceiling: Semester 4 for upper, Period 6 for middle and lower.
C24_GraduatedAtCeiling ==
    is_graduated =>
        /\ level_code(student) # ""
        /\ C24_Ordinal(student) = C24_Ceiling(student)

\* a lower-level learner at Period 6 became graduated
C24_Witness ==
    /\ Evaluated
    /\ ~Pre.is_graduated
    /\ level_code(Pre) = "ebtedai"
    /\ is_graduated
    /\ latest_period(student) = PeriodCeiling

\* C26: the learner's markers stay within 1..4 (semesters) and 1..6
\* (periods) after any sequence of grade submissions and evaluations.
C26_MarkersInRange ==
    /\ semesters \subseteq 1..SemesterCeiling
    /\ periods \subseteq 1..PeriodCeiling

\* an upper-level learner at Semester 4 passed everything: graduated, the
\* marker left at 4
C26_Witness ==
    /\ Evaluated
    /\ level_code(Pre) = "aali"
    /\ latest_semester(Pre) = SemesterCeiling
    /\ last.ret = "graduated"
    /\ semesters = {SemesterCeiling}

\* C27: a grade submission with its evaluation leaves the effective term
\* ordinal equal or raises it by exactly one, on the same track; a crossover
\* that is carried out puts the learner at Period 1 of the middle level, a
\* refused one changes nothing.
C27_Monotone ==
    /\ Evaluated =>
          /\ level_code(student) = level_code(Pre)
          /\ C24_Ordinal(student) \in {C24_Ordinal(Pre), C24_Ordinal(Pre) + 1}
          /\ (C24_Ordinal(student) = C24_Ordinal(Pre) + 1) = (last.ret = "promoted")
    /\ (Crossover /\ last.ret = "promoted") =>
          /\ level = "moteseta"
          /\ C24_Ordinal(student) = 1
          /\ C24_Ordinal(Pre) = PeriodCeiling
    /\ (Crossover /\ last.ret = "refused") =>
          /\ level = Pre.level
          /\ C24_Ordinal(student) = C24_Ordinal(Pre)

\* a lower-level learner moved from Period 5 to Period 6
C27_Witness ==
    /\ Evaluated
    /\ last.ret = "promoted"
    /\ level_code(Pre) = "ebtedai"
    /\ C24_Ordinal(Pre) = 5
    /\ C24_Ordinal(student) = 6

\* the entry is one the claim calls rejected: its subject id or its score
\* is not an integer, its score is outside 0..100, or its subject is unknown
C30_Rejected(e) ==
    \/ ~IntOf[e.sid].ok
    \/ e.score # <<>> /\ ~IntOf[e.score].ok
    \/ e.score # <<>> /\ IntOf[e.score].ok /\ IntOf[e.score].val \notin 0..MaxScore
    \/ IntOf[e.sid].ok /\ IntOf[e.sid].val \notin SubjectIds

\* the positions of the POST holding a valid entry for subject s
C30_ValidFor(s) ==
    {i \in 1..Len(post.es) :
        ~C30_Rejected(post.es[i]) /\ IntOf[post.es[i].sid].val = s}

\* C30: after a grade submission, a subject for which the submission held
\* no valid entry has the records it had before, none created; a subject
\* with a valid entry has exactly the score of its last valid entry,
\* whatever rejected entries the submission also held; and the evaluation
\* ran on that ledger: a non-graduated learner whose subjects of the term
\* all have a passing score in it was promoted or graduated.
C30_RejectedEntriesSkipped ==
    (Evaluated /\ post.es # <<>>) =>
        /\ \A s \in SubjectIds \cup {9} :
              IF C30_ValidFor(s) = {}
              THEN {r \in scores : r.subject = s} = {r \in post.before : r.subject = s}
              ELSE {r \in scores : r.subject = s}
                      = {[subject |-> s,
                          score |-> C15_Submitted(post.es[Max(C30_ValidFor(s))])]}
        /\ ( /\ ~Pre.is_graduated
             /\ subjects(Pre) # {}
             /\ \A s \in subjects(Pre) : Passed(s) )
           => Decided

\* a POST of a non-integer subject id followed by 100 for subject 1, beside
\* a recorded 0 for subject 2: the 100 was stored, the 0 kept, and the
\* learner moved on from Semester 3
C30_Witness ==
    /\ Evaluated
    /\ post.es = << [sid |-> <<"x">>, score |-> <<"1", "0", "0">>],
                    [sid |-> <<"1">>, score |-> <<"1", "0", "0">>] >>
    /\ post.before = {[subject |-> 2, score |-> 0]}
    /\ scores = {[subject |-> 1, score |-> 100], [subject |-> 2, score |-> 0]}
    /\ Pre.semesters = {3}
    /\ last.ret = "promoted"

\* C29: a learner saved through a valid StudentForm has a level; an upper
\* level learner has at least one semester marker and no period marker, a
\* middle or lower level learner at least one period marker and no
\* semester marker, after the save and after every evaluation and
\* crossover that follows.
C29_UnitConsistency ==
    /\ (last.op = "student_create" /\ last.ret = "saved") => Created
    /\ Created => level \in LevelCodes
    /\ level = "aali" => semesters # {} /\ periods = {}
    /\ level \in {"moteseta", "ebtedai"} => periods # {} /\ semesters = {}

\* a learner created at the lower level was crossed over to the middle
\* level, Period 1
C29_Witness ==
    /\ Crossover
    /\ last.ret = "promoted"
    /\ Pre.level = "ebtedai"
    /\ level = "moteseta"
    /\ periods = {1}
    /\ semesters = {}

\* C25: once a crossover and an evaluation of the same learner, however
\* interleaved, are both over, the learner is not at the middle level with
\* marker Period 1 and the graduated flag true.
C25_NoGraduatedAtPeriodOne ==
    (\A r \in RequestIds : requests[r].pc = "done") =>
        ~ ( /\ Student[CrossoverPk].level = "moteseta"
            /\ Student[CrossoverPk].periods = {1}
            /\ Student[CrossoverPk].is_graduated )

\* the learner st put at term n of its track
C28_At(st, n) ==
    IF level_code(st) = "aali" THEN [st EXCEPT !.semesters = {n}]
    ELSE [st EXCEPT !.periods = {n}]

\* the learner has an effective level and every term from its current
\* ordinal up to the ceiling has at least one resolved subject
C28_Ready ==
    /\ level_code(student) # ""
    /\ C24_Ordinal(student) >= 1
    /\ \A n \in C24_Ordinal(student)..C24_Ceiling(student) :
          subjects(C28_At(student, n)) # {}

\* an evaluation of a non-graduated learner on a ledger with a passing
\* score for every subject of its term moved it up one term, or graduated
\* it at the ceiling
C28_Step ==
    ( /\ Evaluated
      /\ ~Pre.is_graduated
      /\ subjects(Pre) # {}
      /\ \A s \in subjects(Pre) : Passed(s) )
    => IF C24_Ordinal(Pre) >= C24_Ceiling(Pre)
       THEN is_graduated
       ELSE ~is_graduated /\ C24_Ordinal(student) = C24_Ordinal(Pre) + 1

\* C28: when every term from the learner's ordinal to the ceiling has a
\* resolved subject and the workflow keeps submitting a passing score for
\* every subject of the current term (weak fairness), the learner
\* eventually is graduated; each such evaluation moves it up exactly one
\* term or graduates it at the ceiling, so one evaluation per remaining
\* term and one at the ceiling are enough.
C28_Progress == []C28_Step /\ (C28_Ready ~> is_graduated)

\* an upper-level learner that passed the subject of Semester 3 and then
\* those of Semester 4 is graduated
C28_Witness ==
    /\ Evaluated
    /\ last.ret = "graduated"
    /\ level_code(Pre) = "aali"
    /\ is_graduated
    /\ \A id \in {1, 2} : \E r \in scores : r.subject = id /\ r.score = 50

====
